---- MODULE Spec2Model ----
(***************************************************************************)
(* Model of text_image_generator: a Streamlit script that is re-executed   *)
(* from top to bottom on every user event.  One execution configures the   *)
(* API key, then runs the three sections (text, configured text, image);   *)
(* at most one button is true in a given execution.                        *)
(***************************************************************************)
EXTENDS Integers, Sequences, FiniteSets, TLC

VARIABLES
    keyPresent,        \* whether st.secrets holds GOOGLE_API_KEY (deployment)
    text_query,        \* st.text_input "Your question:"
    explain_ai_query,  \* st.text_area "Topic to explain:"
    max_tokens,        \* st.slider "Max Output Tokens:"
    temperature,       \* st.slider "Temperature", in tenths
    image_prompt,      \* st.text_area "Describe the image:"
    pressed,           \* the button that triggered this execution
    pc,                \* position of the script execution
    out,               \* display elements written by each section
    calls,             \* requests issued to the remote API in this execution
    received,          \* what the remote call of this execution returned
    exc                \* exception that arose inside the pressed action

vars == <<keyPresent, text_query, explain_ai_query, max_tokens, temperature,
          image_prompt, pressed, pc, out, calls, received, exc>>

form == <<text_query, explain_ai_query, max_tokens, temperature, image_prompt>>

(* ---------------------------- bounds ----------------------------------- *)

MaxParts == 3

(* ------------------------- form widgets -------------------------------- *)

DefaultQuestion == "Who is the god of cricket?"
DefaultTopic == "Explain how AI works"
DefaultImagePrompt == "A 3D rendered image of an RCB team, futuristic cricket stadium"

MinTokens == 50
MaxTokens == 500
DefaultTokens == 100
MinTemperature == 0
MaxTemperature == 20
DefaultTemperature == 15

TokenChoices == {MinTokens, DefaultTokens, MaxTokens}
TemperatureChoices == {MinTemperature, DefaultTemperature, MaxTemperature}

Buttons == {"text", "config", "image"}

(* ------------------------ display elements ----------------------------- *)

NoImage == [format |-> "", bytes |-> <<>>]

Element(kind, msg, text, image) ==
    [kind |-> kind, msg |-> msg, text |-> text, image |-> image]

Success(msg) == Element("success", msg, "", NoImage)
Write(msg, text) == Element("write", msg, text, NoImage)
ErrorMsg(msg, e) == Element("error", msg, e, NoImage)
Info(msg) == Element("info", msg, "", NoImage)
Warning(msg) == Element("warning", msg, "", NoImage)
ImageElement(img) == Element("image", "Generated Image", "", img)
ExceptionBox(e) == Element("exception", "", e, NoImage)

Kinds(s) == [i \in DOMAIN s |-> s[i].kind]

HasKind(s, k) == \E i \in DOMAIN s : s[i].kind = k

(* --------------------- base64 and image decoding ----------------------- *)

\* A payload is a sequence of characters: 0..63 are the base64 alphabet by
\* value, Pad is '=', and Junk is a character outside the alphabet.
Pad == 64
Junk == 65

DecodeError == <<-1>>

RECURSIVE Alphabet(_)
\* b64decode is lenient (validate=False): characters outside the alphabet
\* are discarded before decoding.
Alphabet(s) ==
    IF s = <<>> THEN <<>>
    ELSE IF Head(s) = Junk THEN Alphabet(Tail(s))
    ELSE <<Head(s)>> \o Alphabet(Tail(s))

RECURSIVE DataPrefix(_)
\* the sextets before the first padding character
DataPrefix(s) ==
    IF s = <<>> \/ Head(s) = Pad THEN <<>>
    ELSE <<Head(s)>> \o DataPrefix(Tail(s))

RECURSIVE Sextets2Bytes(_)
Sextets2Bytes(d) ==
    IF Len(d) < 2 THEN <<>>
    ELSE LET b1 == d[1] * 4 + (d[2] \div 16)
         IN  IF Len(d) = 2 THEN <<b1>>
             ELSE LET b2 == (d[2] % 16) * 16 + (d[3] \div 4)
                  IN  IF Len(d) = 3 THEN <<b1, b2>>
                      ELSE <<b1, b2, (d[3] % 4) * 64 + d[4]>>
                           \o Sextets2Bytes(SubSeq(d, 5, Len(d)))

\* base64.b64decode(data): DecodeError stands for binascii.Error
b64decode(data) ==
    LET a == Alphabet(data)
        d == DataPrefix(a)
        pads == Len(a) - Len(d)
        rest == Len(d) % 4
    IN  IF rest = 1 THEN DecodeError
        ELSE IF rest # 0 /\ pads < 4 - rest THEN DecodeError
        ELSE Sextets2Bytes(d)

\* Image.open(BytesIO(image_data)): the format is taken from the leading
\* bytes; an unrecognised stream raises UnidentifiedImageError.
ImageOpen(bytes) ==
    IF Len(bytes) >= 3 /\ SubSeq(bytes, 1, 3) = <<137, 80, 78>>
    THEN [format |-> "PNG", bytes |-> bytes]
    ELSE IF Len(bytes) >= 3 /\ SubSeq(bytes, 1, 3) = <<255, 216, 255>>
    THEN [format |-> "JPEG", bytes |-> bytes]
    ELSE NoImage

(* --------------------------- API responses ----------------------------- *)

NoBlob == [mime_type |-> "", data |-> <<>>]

Part(text, blob, other) == [text |-> text, inline_data |-> blob, other |-> other]

TextPart(t) == Part(t, NoBlob, FALSE)
InlinePart(mime, data) == Part("", [mime_type |-> mime, data |-> data], FALSE)
\* a part variant the script does not look at (e.g. a function call)
OtherPart == Part("", NoBlob, TRUE)

PngPayload == <<34, 21, 1, 14>>          \* "iVBO": bytes 89 50 4E
PngPayloadJunk == <<34, Junk, 21, 1, 14>> \* the same with a line break in it
BadPadding == <<34, 21, 1>>               \* length not a multiple of four
NotAnImage == <<24, 22, 9, 35>>           \* "YWJj": bytes "abc"

PartChoices ==
    { TextPart("a"), TextPart(""), OtherPart,
      InlinePart("image/png", PngPayload),
      InlinePart("image/png", PngPayloadJunk),
      InlinePart("image/png", BadPadding),
      InlinePart("image/png", NotAnImage) }

PartSeqs == UNION { [1..n -> PartChoices] : n \in 0..MaxParts }

\* response.candidates, each candidate given by its content.parts
CandidateLists ==
    {<<>>} \cup { <<ps>> : ps \in PartSeqs }
           \cup { << <<TextPart("a")>>, <<TextPart("b")>> >> }

NoText == "<no text>"
NoResponse == [ok |-> FALSE, text |-> NoText, candidates |-> <<>>]

\* what model.generate_content returns or raises
TextResults ==
    { NoResponse,
      [ok |-> TRUE, text |-> "answer", candidates |-> <<>>],
      [ok |-> TRUE, text |-> NoText, candidates |-> <<>>] }

ImageResults ==
    { NoResponse } \cup
    { [ok |-> TRUE, text |-> NoText, candidates |-> c] : c \in CandidateLists }

(* ----------------------------- requests -------------------------------- *)

NoOptions == [max_output_tokens |-> 0, temperature |-> 0, response_mime_types |-> <<>>]

Request(model, prompt, options) ==
    [model |-> model, prompt |-> prompt, generation_config |-> options]

TextRequest(prompt) == Request("gemini-pro", prompt, NoOptions)

\* a request builder that keeps the temperature within [0, 1]
ConfiguredRequestClamped(prompt, tokens, temp) ==
    Request("gemini-pro", prompt,
            [max_output_tokens |-> tokens,
             temperature |-> IF temp > 10 THEN 10 ELSE temp,
             response_mime_types |-> <<>>])

ConfiguredRequest(prompt, tokens, temp) ==
    Request("gemini-pro", prompt,
            [max_output_tokens |-> tokens, temperature |-> temp,
             response_mime_types |-> <<>>])

ImageRequest(prompt) ==
    Request("gemini-1.5-flash", prompt,
            [max_output_tokens |-> 0, temperature |-> 0,
             response_mime_types |-> <<"image/png">>])

\* a prompt test that lets the empty prompt through
HasPromptAlways(prompt) == TRUE

\* `if text_query:` and its two siblings: a prompt is truthy when not empty
HasPrompt(prompt) == prompt # ""

\* a call that is issued a second time when the first attempt fails
GenerateContentRetry(req, result) ==
    [calls |-> IF result.ok THEN <<req>> ELSE <<req, req>>,
     exc |-> IF result.ok THEN "none" ELSE "ApiError"]

\* one model.generate_content(...) expression: the request goes out once
\* and the call either returns a response or raises
GenerateContent(req, result) ==
    [calls |-> <<req>>, exc |-> IF result.ok THEN "none" ELSE "ApiError"]

(* --------------------------- the three actions ------------------------- *)

Outcome(o, c, e, r) == [out |-> o, calls |-> c, exc |-> e, raised |-> r]

ErrorPrefix(b) ==
    CASE b = "text" -> "Error generating text: "
      [] b = "config" -> "Error generating configured text: "
      [] b = "image" -> "Error generating image: "

ImageHint == "Ensure you are using a model capable of image generation (e.g., gemini-1.5-flash)."

\* a handler that catches the remote call's failure only
ExceptApiOnly(b, shown, c, e) ==
    IF e = "ApiError"
    THEN Outcome(shown \o <<ErrorMsg(ErrorPrefix(b), e)>>
                       \o (IF b = "image" THEN <<Info(ImageHint)>> ELSE <<>>),
                 c, e, FALSE)
    ELSE Outcome(shown, c, e, TRUE)

\* `except Exception as e:` of action b, entered with exception e after the
\* try block has displayed shown and issued c
Except(b, shown, c, e) ==
    Outcome(shown \o <<ErrorMsg(ErrorPrefix(b), e)>>
                  \o (IF b = "image" THEN <<Info(ImageHint)>> ELSE <<>>),
            c, e, FALSE)

\* response.text raises ValueError when the response holds no text
ResponseText(result) == IF result.text = NoText THEN "ValueError" ELSE "none"

\* env.build: whether the model and the generation config objects of the
\* request can be constructed by the installed client library;
\* env.result: what the remote call returns or raises.
GenerateTextResponse(prompt, env) ==
    IF ~HasPrompt(prompt)
    THEN Outcome(<<Warning("Please enter a question.")>>, <<>>, "none", FALSE)
    ELSE IF ~env.build THEN Except("text", <<>>, <<>>, "AttributeError")
    ELSE LET g == GenerateContent(TextRequest(prompt), env.result)
         IN  IF g.exc # "none" THEN Except("text", <<>>, g.calls, g.exc)
             ELSE IF ResponseText(env.result) # "none"
             THEN Except("text", <<Success("Response:")>>, g.calls,
                         ResponseText(env.result))
             ELSE Outcome(<<Success("Response:"), Write("", env.result.text)>>,
                          g.calls, "none", FALSE)

GenerateConfiguredText(prompt, tokens, temp, env) ==
    IF ~HasPrompt(prompt)
    THEN Outcome(<<Warning("Please enter a topic to explain.")>>, <<>>, "none", FALSE)
    ELSE IF ~env.build THEN Except("config", <<>>, <<>>, "AttributeError")
    ELSE LET g == GenerateContent(ConfiguredRequest(prompt, tokens, temp), env.result)
         IN  IF g.exc # "none" THEN Except("config", <<>>, g.calls, g.exc)
             ELSE IF ResponseText(env.result) # "none"
             THEN Except("config", <<Success("Configured Response:")>>, g.calls,
                         ResponseText(env.result))
             ELSE Outcome(<<Success("Configured Response:"),
                            Write("", env.result.text)>>,
                          g.calls, "none", FALSE)

\* a loop body that rejects a part it does not recognise
RenderPartStrict(part) ==
    IF part.text # ""
    THEN [shown |-> <<Write("Model description/text: ", part.text)>>, exc |-> "none"]
    ELSE IF part.inline_data # NoBlob
    THEN LET image_data == b64decode(part.inline_data.data)
         IN  IF image_data = DecodeError
             THEN [shown |-> <<>>, exc |-> "binascii.Error"]
             ELSE IF ImageOpen(image_data) = NoImage
             THEN [shown |-> <<>>, exc |-> "UnidentifiedImageError"]
             ELSE [shown |-> <<ImageElement(ImageOpen(image_data))>>, exc |-> "none"]
    ELSE [shown |-> <<>>, exc |-> "TypeError"]

\* the body of the part loop for one part: what it displays, and the
\* exception it raises, if any
RenderPart(part) ==
    IF part.text # ""
    THEN [shown |-> <<Write("Model description/text: ", part.text)>>, exc |-> "none"]
    ELSE IF part.inline_data # NoBlob
    THEN LET image_data == b64decode(part.inline_data.data)
         IN  IF image_data = DecodeError
             THEN [shown |-> <<>>, exc |-> "binascii.Error"]
             ELSE IF ImageOpen(image_data) = NoImage
             THEN [shown |-> <<>>, exc |-> "UnidentifiedImageError"]
             ELSE [shown |-> <<ImageElement(ImageOpen(image_data))>>, exc |-> "none"]
    ELSE [shown |-> <<>>, exc |-> "none"]

RECURSIVE RenderParts(_)
\* `for part in ...parts:` an exception in the body leaves the loop
RenderParts(parts) ==
    IF parts = <<>> THEN [shown |-> <<>>, exc |-> "none"]
    ELSE LET r == RenderPart(Head(parts))
         IN  IF r.exc # "none" THEN r
             ELSE LET rest == RenderParts(Tail(parts))
                  IN  [shown |-> r.shown \o rest.shown, exc |-> rest.exc]

GenerateImage(prompt, env) ==
    IF ~HasPrompt(prompt)
    THEN Outcome(<<Warning("Please enter an image description.")>>, <<>>, "none", FALSE)
    ELSE IF ~env.build THEN Except("image", <<>>, <<>>, "AttributeError")
    ELSE LET g == GenerateContent(ImageRequest(prompt), env.result)
             banner == <<Success("Generated Image:")>>
         IN  IF g.exc # "none" THEN Except("image", <<>>, g.calls, g.exc)
             ELSE IF env.result.candidates = <<>>
             THEN Except("image", banner, g.calls, "IndexError")
             ELSE LET r == RenderParts(env.result.candidates[1])
                  IN  IF r.exc # "none"
                      THEN Except("image", banner \o r.shown, g.calls, r.exc)
                      ELSE Outcome(banner \o r.shown, g.calls, "none", FALSE)

(* ------------------------------ startup -------------------------------- *)

\* what st.secrets["GOOGLE_API_KEY"] can raise when the key is not there:
\* the secrets object raises KeyError for a missing key and
\* FileNotFoundError when there is no secrets file; AttributeError is what
\* its attribute access raises.
LookupErrors == {"KeyError", "FileNotFoundError", "AttributeError"}

KeyMessage == "Please set your Google API Key in Streamlit secrets. Refer to the comments in the code."

\* the try/except around genai.configure
Configure(present, lookup) ==
    IF present THEN [status |-> "ok", shown |-> <<>>]
    ELSE IF lookup = "AttributeError"
         THEN [status |-> "stopped", shown |-> <<ErrorMsg(KeyMessage, "")>>]
         ELSE [status |-> "crashed", shown |-> <<ExceptionBox(lookup)>>]

(* --------------------------- script execution -------------------------- *)

Sections == {"startup", "text", "config", "image"}

Blank == [s \in Sections |-> <<>>]

QuestionChoices == {"", DefaultQuestion}
TopicChoices == {"", DefaultTopic}
ImagePromptChoices == {"", DefaultImagePrompt}

Envs(results) == [build : BOOLEAN, result : results]

Init ==
    /\ keyPresent \in BOOLEAN
    /\ text_query = DefaultQuestion
    /\ explain_ai_query = DefaultTopic
    /\ max_tokens = DefaultTokens
    /\ temperature = DefaultTemperature
    /\ image_prompt = DefaultImagePrompt
    /\ pressed = "none"
    /\ pc = "startup"
    /\ out = Blank
    /\ calls = <<>>
    /\ received = NoResponse
    /\ exc = "none"

\* every user event re-executes the script from the top with a fresh page
BeginRun(b) ==
    /\ pressed' = b
    /\ pc' = "startup"
    /\ out' = Blank
    /\ calls' = <<>>
    /\ received' = NoResponse
    /\ exc' = "none"
    /\ UNCHANGED keyPresent

\* the browser page is loaded again: a new session with the widget defaults
Reload ==
    /\ pc \in {"idle", "stopped", "crashed"}
    /\ text_query' = DefaultQuestion
    /\ explain_ai_query' = DefaultTopic
    /\ max_tokens' = DefaultTokens
    /\ temperature' = DefaultTemperature
    /\ image_prompt' = DefaultImagePrompt
    /\ BeginRun("none")

EditQuestion ==
    /\ pc = "idle"
    /\ \E v \in QuestionChoices \ {text_query} : text_query' = v
    /\ UNCHANGED <<explain_ai_query, max_tokens, temperature, image_prompt>>
    /\ BeginRun("none")

EditTopic ==
    /\ pc = "idle"
    /\ \E v \in TopicChoices \ {explain_ai_query} : explain_ai_query' = v
    /\ UNCHANGED <<text_query, max_tokens, temperature, image_prompt>>
    /\ BeginRun("none")

SlideMaxTokens ==
    /\ pc = "idle"
    /\ \E v \in TokenChoices \ {max_tokens} : max_tokens' = v
    /\ UNCHANGED <<text_query, explain_ai_query, temperature, image_prompt>>
    /\ BeginRun("none")

SlideTemperature ==
    /\ pc = "idle"
    /\ \E v \in TemperatureChoices \ {temperature} : temperature' = v
    /\ UNCHANGED <<text_query, explain_ai_query, max_tokens, image_prompt>>
    /\ BeginRun("none")

EditImagePrompt ==
    /\ pc = "idle"
    /\ \E v \in ImagePromptChoices \ {image_prompt} : image_prompt' = v
    /\ UNCHANGED <<text_query, explain_ai_query, max_tokens, temperature>>
    /\ BeginRun("none")

Press ==
    /\ pc = "idle"
    /\ \E b \in Buttons : BeginRun(b)
    /\ UNCHANGED form

\* the API key configuration at the top of the script
Startup ==
    /\ pc = "startup"
    /\ \E lookup \in LookupErrors :
          LET r == Configure(keyPresent, lookup)
          IN  /\ out' = [out EXCEPT !["startup"] = r.shown]
              /\ pc' = IF r.status = "ok" THEN "text" ELSE r.status
    /\ UNCHANGED <<keyPresent, form, pressed, calls, received, exc>>

\* a section whose button is pressed runs its action; o is the outcome
Finish(section, o, result, next) ==
    /\ out' = [out EXCEPT ![section] = o.out]
    /\ calls' = o.calls
    /\ received' = IF o.calls = <<>> THEN NoResponse ELSE result
    /\ exc' = o.exc
    /\ pc' = IF o.raised THEN "crashed" ELSE next
    /\ UNCHANGED <<keyPresent, form, pressed>>

Skip(next) ==
    /\ pc' = next
    /\ UNCHANGED <<keyPresent, form, pressed, out, calls, received, exc>>

TextSection ==
    /\ pc = "text"
    /\ IF pressed = "text"
       THEN \E env \in Envs(TextResults) :
               Finish("text", GenerateTextResponse(text_query, env),
                      env.result, "config")
       ELSE Skip("config")

ConfigSection ==
    /\ pc = "config"
    /\ IF pressed = "config"
       THEN \E env \in Envs(TextResults) :
               Finish("config",
                      GenerateConfiguredText(explain_ai_query, max_tokens,
                                             temperature, env),
                      env.result, "image")
       ELSE Skip("image")

ImageSection ==
    /\ pc = "image"
    /\ IF pressed = "image"
       THEN \E env \in Envs(ImageResults) :
               Finish("image", GenerateImage(image_prompt, env),
                      env.result, "idle")
       ELSE Skip("idle")

Next ==
    \/ Reload
    \/ EditQuestion
    \/ EditTopic
    \/ SlideMaxTokens
    \/ SlideTemperature
    \/ EditImagePrompt
    \/ Press
    \/ Startup
    \/ TextSection
    \/ ConfigSection
    \/ ImageSection

Spec == Init /\ [][Next]_vars

(* ------------------------------ properties ----------------------------- *)

After(b) ==
    CASE b = "text" -> {"config", "image", "idle"}
      [] b = "config" -> {"image", "idle"}
      [] b = "image" -> {"idle"}

\* the action of button b was triggered and has run to its end
Done(b) == pressed = b /\ pc \in After(b)

PromptOf(b) ==
    CASE b = "text" -> text_query
      [] b = "config" -> explain_ai_query
      [] b = "image" -> image_prompt

\* the image action got a response with at least one candidate
GotParts == Done("image") /\ received.ok /\ received.candidates # <<>>

FirstParts == received.candidates[1]

\* what the image action displayed after its banner, errors left out
Rendered ==
    SelectSeq(out["image"], LAMBDA e : e.kind \in {"write", "image"})

RECURSIVE EachPart(_)
\* every part rendered on its own, in order
EachPart(parts) ==
    IF parts = <<>> THEN <<>>
    ELSE RenderPart(Head(parts)).shown \o EachPart(Tail(parts))

Fails(part) == RenderPart(part).exc # "none"

\* C1: for every response whose first candidate holds parts, the image
\* action displays, in part order, one text per Text part with content and
\* one image per InlineImage part, nothing reordered, duplicated or dropped.
C1_OrderPreserving == GotParts => Rendered = EachPart(FirstParts)

\* C2: a response with zero candidates ends the image action in an error
\* and the action displays nothing else: no success banner, text or image.
C2_NoCandidatesNoOutput ==
    (Done("image") /\ received.ok /\ received.candidates = <<>>)
        => /\ exc # "none"
           /\ \A i \in DOMAIN out["image"] :
                 out["image"][i].kind \in {"error", "info"}

\* C3: when an InlineImage part fails to decode, the error is for that part
\* only: every later renderable part of the response is still displayed.
C3_DecodeFailureNotFatal ==
    GotParts =>
        \A i \in DOMAIN FirstParts :
            Fails(FirstParts[i]) =>
                /\ HasKind(out["image"], "error")
                /\ \A j \in DOMAIN FirstParts :
                      (j > i /\ ~Fails(FirstParts[j])) =>
                          \A k \in DOMAIN RenderPart(FirstParts[j]).shown :
                              \E m \in DOMAIN out["image"] :
                                  out["image"][m] = RenderPart(FirstParts[j]).shown[k]

\* C4: with the API key absent, startup shows the missing-key message and
\* stops; no button action is triggered and no API call is issued.
C4_MissingKeyHalts ==
    (~keyPresent /\ pc # "startup")
        => /\ pc = "stopped"
           /\ out["startup"] = <<ErrorMsg(KeyMessage, "")>>
           /\ pressed = "none"
           /\ calls = <<>>

\* C5: a failure inside any of the three actions is caught by the action,
\* shown as an error message of that action, and the script goes on.
C5_FailuresCaught ==
    \A b \in Buttons :
        (pressed = b /\ exc # "none")
            => /\ pc \in After(b)
               /\ HasKind(out[b], "error")

C5_Witness ==
    /\ Done("image") /\ exc = "binascii.Error" /\ HasKind(out["image"], "error")

\* C6 as stated: every button press issues exactly one call to the API.
C6_ExactlyOneCall == \A b \in Buttons : Done(b) => Len(calls) = 1

\* C6 amended: a press never issues more than one call, also after a failed
\* call; it issues none when the prompt is empty or the request objects
\* cannot be constructed, and exactly one otherwise.
C6_AtMostOneCall ==
    /\ Len(calls) <= 1
    /\ \A b \in Buttons :
          Done(b) =>
              IF PromptOf(b) = "" \/ (exc = "AttributeError" /\ ~received.ok)
              THEN calls = <<>>
              ELSE Len(calls) = 1

C6_Witness == Done("text") /\ exc = "ApiError" /\ Len(calls) = 1

\* C7: the request of the configurable-explanation action carries the
\* max_output_tokens and temperature chosen in the form, and the prompt,
\* unchanged.
C7_OptionsUnchanged ==
    (pressed = "config" /\ calls # <<>>)
        => /\ calls[1].generation_config.max_output_tokens = max_tokens
           /\ calls[1].generation_config.temperature = temperature
           /\ calls[1].prompt = explain_ai_query

C7_Witness ==
    /\ Done("config") /\ Len(calls) = 1
    /\ max_tokens = 100 /\ temperature = 15
    /\ calls[1].generation_config.temperature = 15

\* C8: no run of an action shows both a success message and an error
\* message.
C8_SuccessXorError ==
    \A b \in Buttons :
        ~(HasKind(out[b], "success") /\ HasKind(out[b], "error"))

Skipped(part) == part.text = "" /\ part.inline_data = NoBlob

\* C9: a part that is neither a Text part with content nor an InlineImage
\* part changes nothing: the action displays and ends exactly as for the
\* same response without that part.
C9_UnknownPartSkipped ==
    GotParts =>
        LET without == SelectSeq(FirstParts, LAMBDA p : ~Skipped(p))
            o == GenerateImage(image_prompt,
                     [build |-> TRUE,
                      result |-> [received EXCEPT !.candidates = <<without>>]])
        IN  out["image"] = o.out /\ exc = o.exc

C9_Witness ==
    /\ GotParts
    /\ FirstParts = <<TextPart("a"), OtherPart, InlinePart("image/png", PngPayload)>>
    /\ Kinds(out["image"]) = <<"success", "write", "image">>
    /\ exc = "none"

\* C10: a press with an empty prompt shows only a warning: no API call, no
\* success message and no error message, for each of the three actions.
C10_EmptyPromptWarns ==
    \A b \in Buttons :
        (Done(b) /\ PromptOf(b) = "")
            => /\ calls = <<>>
               /\ Kinds(out[b]) = <<"warning">>

C10_Witness ==
    /\ Done("config") /\ explain_ai_query = ""
    /\ Kinds(out["config"]) = <<"warning">>

====
